---- MODULE Spec2Model ----
(***************************************************************************)
(* StorgataDB: the write pipeline of a replicated key-value server.        *)
(*                                                                         *)
(*   connection task  --SyncRequest-->  submit task  --bytes-->  Raft      *)
(*   Raft  --committed bytes-->  apply task  --one-shot result-->          *)
(*   connection task                                                       *)
(*                                                                         *)
(* One instance of the pipeline runs on every node of the cluster; the     *)
(* Raft group is the only thing the nodes share.  Raft and the Bitcask     *)
(* engine are external crates: they are modelled at their interface (a     *)
(* totally ordered log delivered once, in order, to every node; a          *)
(* key-value map with conditional put and delete).                         *)
(***************************************************************************)
EXTENDS Naturals, Integers, Sequences, FiniteSets, TLC

(***************************************************************************)
(* Bounds of the model.                                                    *)
(***************************************************************************)
\* Number of writes (InnerCmd::Put / InnerCmd::Del) admitted cluster-wide.
MaxWrites == 2
\* Capacities of the bounded mpsc channels (100 each in the program):
\* SyncRequest intake, propose_in (btx/brx) and committed_out (mtx/mrx).
IntakeCap == 1
ProposeCap == 1
CommittedCap == 2
\* How many times Raft delivers an entry again to a node.
MaxReplays == 1
\* Longest array among the values given to the codec (commands apart).
MaxArrayLen == 2
\* Largest magnitude of a declared bulk-string length given to decode.
MaxDeclaredLen == 3

Nodes == {"node1", "node2", "node3"}
\* Client connections.
Conns == {"A", "B", "C"}

Keys == {"k"}
Values == {"1", "2"}
\* Request ids: every write draws a fresh one (Uuid::new_v4).
\* The writes that fill the pipeline of a node and one more: one in the hands
\* of each of the apply task, Raft and the submit task, and full propose_in
\* and committed_out channels.
FillWrites == ProposeCap + CommittedCap + 3

Ids == 1 .. (IF MaxWrites > FillWrites THEN MaxWrites ELSE FillWrites)

(***************************************************************************)
(* Option<T> is a sequence of length 0 (None) or 1 (Some).                 *)
(***************************************************************************)
None == << >>
Some(x) == << x >>
IsSome(o) == Len(o) = 1
Unwrap(o) == o[1]

(***************************************************************************)
(* cmd.rs: PutOptionSerde and InnerCmd.                                    *)
(***************************************************************************)
PutOptionSerde_nx == Some([nx |-> TRUE, xx |-> FALSE])
PutOptionSerde_xx == Some([nx |-> FALSE, xx |-> TRUE])
PutOptions == {None, PutOptionSerde_nx, PutOptionSerde_xx}

InnerCmd_Put(id, key, value, option) ==
    [tag |-> "Put", id |-> id, key |-> key, value |-> value, option |-> option]
InnerCmd_Del(id, key) ==
    [tag |-> "Del", id |-> id, key |-> key, value |-> "", option |-> None]

\* The writes a client can ask for, before the request id is minted.
WriteCmds ==
    {[tag |-> "Put", key |-> k, value |-> v, option |-> o] :
        k \in Keys, v \in Values, o \in PutOptions}
    \cup {[tag |-> "Del", key |-> k, value |-> "", option |-> None] : k \in Keys}

\* InnerCmd::new for Cmd::Set and Cmd::Del: the command with a fresh id.
InnerCmd_new(cmd, id) ==
    IF cmd.tag = "Put"
    THEN InnerCmd_Put(id, cmd.key, cmd.value, cmd.option)
    ELSE InnerCmd_Del(id, cmd.key)

get_request_id(m) == m.id

(***************************************************************************)
(* bincode of InnerCmd: variant index, then the fields in order.           *)
(***************************************************************************)
\* A serialisation that loses the option of a Put.
SerializeOption_Dropped(o) == <<0>>

SerializeOption(o) == IF IsSome(o) THEN <<1, Unwrap(o).nx, Unwrap(o).xx>> ELSE <<0>>
DeserializeOption(b) == IF b[1] = 1 THEN Some([nx |-> b[2], xx |-> b[3]]) ELSE None

Serialize(m) ==
    IF m.tag = "Put"
    THEN <<1, m.id, m.key, m.value, SerializeOption(m.option)>>
    ELSE <<2, m.id, m.key>>
Deserialize(p) ==
    IF p[1] = 1
    THEN InnerCmd_Put(p[2], p[3], p[4], DeserializeOption(p[5]))
    ELSE InnerCmd_Del(p[2], p[3])

(***************************************************************************)
(* Bitcask at its interface: a map from keys to optional values.           *)
(***************************************************************************)
EmptyStore == [k \in Keys |-> None]

KV_get(store, key) == store[key]

\* put_with_option: NX writes only an absent key, XX only a present one.
KV_put_with_option(store, key, value, option) ==
    LET nx == IsSome(option) /\ Unwrap(option).nx
        xx == IsSome(option) /\ Unwrap(option).xx
    IN  IF (nx /\ IsSome(store[key])) \/ (xx /\ ~IsSome(store[key]))
        THEN [store |-> store, result |-> "Err"]
        ELSE [store |-> [store EXCEPT ![key] = Some(value)], result |-> "Ok"]

\* delete: removing an absent key succeeds.
KV_delete(store, key) ==
    [store |-> [store EXCEPT ![key] = None], result |-> "Ok"]

(***************************************************************************)
(* impl Syncable for InnerCmd: handle applies a Put or a Del to storage;   *)
(* any other command panics.                                               *)
(***************************************************************************)
handle(m, store) ==
    CASE m.tag = "Put" ->
            \* option.map(|op| op.into()): PutOptionSerde -> PutOption
            KV_put_with_option(store, m.key, m.value,
                IF IsSome(m.option)
                THEN Some([nx |-> Unwrap(m.option).nx, xx |-> Unwrap(m.option).xx])
                ELSE None)
      [] m.tag = "Del" -> KV_delete(store, m.key)
      [] OTHER -> [store |-> store, result |-> "panic"]

(***************************************************************************)
(* resp_codec.rs: the frames a reply can be, and RespCodec::encode.        *)
(***************************************************************************)
SimpleString(s) == [type |-> "SimpleString", text |-> s, bulk |-> None]
Error(s) == [type |-> "Error", text |-> s, bulk |-> None]
BulkString(o) == [type |-> "BulkString", text |-> "", bulk |-> o]

Integer(i) == [type |-> "Integer", value |-> i]
Array(a) == [type |-> "Array", items |-> a]

RECURSIVE encode(_)
\* The for loop of the Array arm: the items, one after the other.
RECURSIVE encode_items(_)
encode_items(array) ==
    IF array = << >> THEN "" ELSE encode(Head(array)) \o encode_items(Tail(array))

encode(v) ==
    CASE v.type = "SimpleString" -> "+" \o v.text \o "\r\n"
      [] v.type = "Error" -> "-" \o v.text \o "\r\n"
      [] v.type = "Integer" -> ":" \o ToString(v.value) \o "\r\n"
      [] v.type = "BulkString" ->
            IF IsSome(v.bulk)
            THEN "$" \o ToString(Len(Unwrap(v.bulk))) \o "\r\n" \o Unwrap(v.bulk) \o "\r\n"
            ELSE "$-1\r\n"
      [] v.type = "Array" ->
            "*" \o ToString(Len(v.items)) \o "\r\n" \o encode_items(v.items)

(***************************************************************************)
(* resp_codec.rs: RespCodec::decode.  The input is the bytes the peer sent *)
(* before it closed; a decode yields Ok(value) and the bytes left, or an   *)
(* error, or panics.                                                       *)
(***************************************************************************)
\* A byte that is not valid UTF-8 (0xFF), written as a character of its own.
NonUtf8 == "#"

\* connection.rs: ConnectionError, and std::io::ErrorKind for IoError.
IncompleteData == [error |-> "IncompleteData", detail |-> ""]
UnrecognizedType == [error |-> "UnrecognizedType", detail |-> ""]
IoError(ioKind) == [error |-> "IoError", detail |-> ioKind]
ParseIntError(intKind) == [error |-> "ParseIntError", detail |-> intKind]
Utf8Error == [error |-> "Utf8Error", detail |-> ""]
\* Not a ConnectionError: the task unwinds.
Panic == [error |-> "panic", detail |-> ""]

NoValue == [type |-> "none"]
Ok(value, rest) == [ok |-> TRUE, value |-> value, rest |-> rest, err |-> [error |-> "", detail |-> ""]]
Err(e) == [ok |-> FALSE, value |-> NoValue, rest |-> "", err |-> e]

\* input.read_until(b'\n', &mut buf): the bytes up to and including the first
\* LF, or every byte left when there is none.
read_until(input) ==
    LET lf == {i \in 1 .. Len(input) : SubSeq(input, i, i) = "\n"}
        n == IF lf = {} THEN Len(input) ELSE CHOOSE i \in lf : \A j \in lf : i <= j
    IN  [buf |-> SubSeq(input, 1, n), rest |-> SubSeq(input, n + 1, Len(input))]

\* String::from_utf8
from_utf8(bytes) == \A i \in 1 .. Len(bytes) : SubSeq(bytes, i, i) # NonUtf8

\* The header line of every arm: read_until, the check of the CR before the
\* LF, and from_utf8 of what precedes them.
read_line(input) ==
    LET r == read_until(input)
        len == Len(r.buf)
    IN  IF len < 2 \/ SubSeq(r.buf, len - 1, len - 1) # "\r"
        THEN Err(IncompleteData)
        ELSE IF ~from_utf8(SubSeq(r.buf, 1, len - 2))
        THEN Err(Utf8Error)
        ELSE Ok(SubSeq(r.buf, 1, len - 2), r.rest)

Digits == {"0", "1", "2", "3", "4", "5", "6", "7", "8", "9"}
DigitValue(d) ==
    CASE d = "0" -> 0 [] d = "1" -> 1 [] d = "2" -> 2 [] d = "3" -> 3 [] d = "4" -> 4
      [] d = "5" -> 5 [] d = "6" -> 6 [] d = "7" -> 7 [] d = "8" -> 8 [] d = "9" -> 9

RECURSIVE digits_value(_, _)
digits_value(s, acc) ==
    IF s = "" THEN acc ELSE digits_value(Tail(s), acc * 10 + DigitValue(Head(s)))

\* str::parse::<i64 | i32 | usize>: an optional sign ('-' only for the signed
\* types), then one or more decimal digits.  The overflow errors need ten
\* digits or more and are not modelled.
parse(s, signed) ==
    LET neg == signed /\ s # "" /\ Head(s) = "-"
        body == IF s # "" /\ (Head(s) = "+" \/ neg) THEN Tail(s) ELSE s
    IN  IF s = "" THEN Err(ParseIntError("Empty"))
        ELSE IF body = "" \/ \E i \in 1 .. Len(body) : SubSeq(body, i, i) \notin Digits
        THEN Err(ParseIntError("InvalidDigit"))
        ELSE Ok(IF neg THEN 0 - digits_value(body, 0) ELSE digits_value(body, 0), "")

\* A Bulk String arm that takes the null bulk string for an empty one.
decode_bulk_NullAsEmpty(len, input) ==
    IF len = 0 - 1 THEN Ok(BulkString(Some("")), input)
    ELSE IF len < 0 - 1 THEN Err(Panic)
    ELSE IF Len(input) < len + 2 THEN Err(IoError("UnexpectedEof"))
    ELSE IF SubSeq(input, len + 1, len + 2) # "\r\n" THEN Err(IncompleteData)
    ELSE Ok(BulkString(Some(SubSeq(input, 1, len))), SubSeq(input, len + 3, Len(input)))

\* The Bulk String arm after its header: len is the declared length.  A len
\* below -1 panics: `len as usize + 2` overflows (debug build), or wraps to 0
\* and buf[len as usize] is out of bounds (len = -2), or the allocation of
\* vec![0u8; ..] exceeds the capacity limit (len < -2).
decode_bulk(len, input) ==
    IF len = 0 - 1 THEN Ok(BulkString(None), input)
    ELSE IF len < 0 - 1 THEN Err(Panic)
    ELSE IF Len(input) < len + 2 THEN Err(IoError("UnexpectedEof"))
    ELSE IF SubSeq(input, len + 1, len + 2) # "\r\n" THEN Err(IncompleteData)
    ELSE Ok(BulkString(Some(SubSeq(input, 1, len))), SubSeq(input, len + 3, Len(input)))

RECURSIVE decode(_)
\* The for loop of the Array arm: decode len values, the first error ends it.
RECURSIVE decode_items(_, _, _)
decode_items(len, input, array) ==
    IF len = 0 THEN Ok(Array(array), input)
    ELSE LET r == decode(input)
         IN  IF r.ok THEN decode_items(len - 1, r.rest, Append(array, r.value)) ELSE r

decode(input) ==
    IF input = "" THEN Err(IoError("UnexpectedEof"))
    ELSE
    LET type == Head(input)
        line == read_line(Tail(input))
    IN  CASE type \in {"+", "-"} ->
                IF ~line.ok THEN line
                ELSE Ok(IF type = "+" THEN SimpleString(line.value) ELSE Error(line.value),
                        line.rest)
          [] type = ":" ->
                IF ~line.ok THEN line
                ELSE LET i == parse(line.value, TRUE)
                     IN  IF i.ok THEN Ok(Integer(i.value), line.rest) ELSE i
          [] type = "$" ->
                IF ~line.ok THEN line
                ELSE LET len == parse(line.value, TRUE)
                     IN  IF len.ok THEN decode_bulk(len.value, line.rest) ELSE len
          [] type = "*" ->
                IF ~line.ok THEN line
                ELSE LET len == parse(line.value, FALSE)
                     IN  IF len.ok THEN decode_items(len.value, line.rest, << >>) ELSE len
          [] OTHER -> Err(UnrecognizedType)

(***************************************************************************)
(* resp_codec.rs: convert_bulk_string_to_string and Debug for RespValue.   *)
(***************************************************************************)
convert_bulk_string_to_string(bulk_string) ==
    IF IsSome(bulk_string) /\ from_utf8(Unwrap(bulk_string)) THEN Unwrap(bulk_string) ELSE ""

RECURSIVE RespValue_fmt(_)
\* {:?} of a Vec<RespValue>, without the brackets: the items separated by ", ".
RECURSIVE RespValue_fmt_items(_)
RespValue_fmt_items(array) ==
    IF array = << >> THEN ""
    ELSE IF Len(array) = 1 THEN RespValue_fmt(Head(array))
    ELSE RespValue_fmt(Head(array)) \o ", " \o RespValue_fmt_items(Tail(array))

RespValue_fmt(v) ==
    CASE v.type = "SimpleString" -> "SimpleString(" \o v.text \o ")"
      [] v.type = "Error" -> "Error(" \o v.text \o ")"
      [] v.type = "Integer" -> "Integer(" \o ToString(v.value) \o ")"
      [] v.type = "BulkString" ->
            "BulkString(" \o convert_bulk_string_to_string(v.bulk) \o ")"
      [] v.type = "Array" -> "Array([" \o RespValue_fmt_items(v.items) \o "])"

\* {:?} of a ConnectionError (derived Debug).  The FromUtf8Error is printed
\* without its fields.
ConnectionError_fmt(e) ==
    CASE e.error = "ParseIntError" ->
            "ParseIntError(ParseIntError { kind: " \o e.detail \o " })"
      [] e.error = "Utf8Error" -> "Utf8Error(FromUtf8Error)"
      [] e.error = "IoError" -> "IoError(" \o e.detail \o ")"
      [] OTHER -> e.error

(***************************************************************************)
(* cmd.rs: Cmd, the ParseCmd implementations and From<RespValue> for Cmd.  *)
(***************************************************************************)
Cmd_Get(key) == [tag |-> "Get", key |-> key, value |-> NoValue, option |-> None]
Cmd_Set(key, value, option) == [tag |-> "Set", key |-> key, value |-> value, option |-> option]
Cmd_Del(key) == [tag |-> "Del", key |-> key, value |-> NoValue, option |-> None]
Cmd_Ping == [tag |-> "Ping", key |-> NoValue, value |-> NoValue, option |-> None]
Cmd_Unknown == [tag |-> "Unknown", key |-> NoValue, value |-> NoValue, option |-> None]
\* Not a Cmd: the conversion panicked.
Cmd_Panic == [tag |-> "panic", key |-> NoValue, value |-> NoValue, option |-> None]

\* GetCmd::parse on the arguments: exactly one.
GetCmd_parse(arr) == IF Len(arr) = 1 THEN Cmd_Get(arr[1]) ELSE Cmd_Unknown

\* SetCmd::parse on the arguments: key, value and an optional NX or XX.
SetCmd_parse(arr) ==
    IF Len(arr) = 2 THEN Cmd_Set(arr[1], arr[2], None)
    ELSE IF Len(arr) = 3
    THEN LET option == IF arr[3].type = "BulkString"
                       THEN convert_bulk_string_to_string(arr[3].bulk) ELSE ""
         IN  CASE arr[3].type = "BulkString" /\ option = "NX" ->
                    Cmd_Set(arr[1], arr[2], PutOptionSerde_nx)
               [] arr[3].type = "BulkString" /\ option = "XX" ->
                    Cmd_Set(arr[1], arr[2], PutOptionSerde_xx)
               [] OTHER -> Cmd_Unknown
    ELSE Cmd_Unknown

DelCmd_parse(arr) == IF Len(arr) = 1 THEN Cmd_Del(arr[1]) ELSE Cmd_Unknown

PingCmd_parse(arr) == IF arr = << >> THEN Cmd_Ping ELSE Cmd_Unknown

\* Cmd::from(RespValue).  The guard of the first arm holds for an empty
\* array, on which arr.remove(0) panics.
Cmd_from(value) ==
    IF value.type = "Array" /\ \A i \in 1 .. Len(value.items) : value.items[i].type = "BulkString"
    THEN IF value.items = << >> THEN Cmd_Panic
         ELSE LET cmd == convert_bulk_string_to_string(Head(value.items).bulk)
                  arr == Tail(value.items)
              IN  CASE cmd = "GET" -> GetCmd_parse(arr)
                    [] cmd = "SET" -> SetCmd_parse(arr)
                    [] cmd = "DEL" -> DelCmd_parse(arr)
                    [] cmd = "PING" -> PingCmd_parse(arr)
                    [] OTHER -> Cmd_Unknown
    ELSE Cmd_Unknown

\* convert_bulk_string_to_vec: the bytes of a non-null bulk string.
convert_bulk_string_to_vec(bulk_string) ==
    IF bulk_string.type = "BulkString" /\ IsSome(bulk_string.bulk)
    THEN Some(Unwrap(bulk_string.bulk)) ELSE None

\* InnerCmd::new without the request id: the command a Cmd asks for, or
\* None where new returns Err.
InnerCmd_args(cmd) ==
    LET key == convert_bulk_string_to_vec(cmd.key)
        value == convert_bulk_string_to_vec(cmd.value)
    IN  CASE cmd.tag = "Get" /\ IsSome(key) ->
                Some([tag |-> "Get", key |-> Unwrap(key), value |-> "", option |-> None])
          [] cmd.tag = "Set" /\ IsSome(key) /\ IsSome(value) ->
                Some([tag |-> "Put", key |-> Unwrap(key), value |-> Unwrap(value),
                      option |-> cmd.option])
          [] cmd.tag = "Del" /\ IsSome(key) ->
                Some([tag |-> "Del", key |-> Unwrap(key), value |-> "", option |-> None])
          [] cmd.tag = "Ping" ->
                Some([tag |-> "Ping", key |-> "", value |-> "", option |-> None])
          [] OTHER -> None

(***************************************************************************)
(* State.                                                                  *)
(***************************************************************************)
VARIABLES
    \* connection.rs: one Connection task per client socket
    conn_pc,            \* "reading" | "awaiting" | "returned_ok" |
                        \*   "returned_err" (handle returned Ok(()) or Err)
                        \*   | "dead" (task panicked)
    conn_req,           \* the InnerCmd whose commit the task awaits
    last_reply,         \* the last frame written to the socket
    oneshot,            \* tokio one-shot channel of every write, by handle:
                        \*   "unused"; "pending" (both ends alive, no value);
                        \*   "Ok" | "Err" (the value sent, not yet received);
                        \*   "tx_dropped" (sender dropped without a value);
                        \*   "done" (value received); "closed" (receiver saw
                        \*   the sender dropped); "rx_dropped" (receiver
                        \*   dropped by the timeout)
    \* main.rs / sync_layer.rs: channels and tasks of one node
    sync_request_chan,  \* mpsc of SyncRequest, connections -> submit task
    submit_pc,          \* "recv" | "lock" | "send" | "dead"
    submit_req,         \* the SyncRequest the submit task holds
    map_lock,           \* holder of the RequestMap mutex
    request_map,        \* RequestId -> one-shot Sender
    propose_in,         \* mpsc of payloads, submit task -> Raft (btx/brx)
    committed_out,      \* mpsc of payloads, Raft -> apply task (mtx/mrx)
    apply_pc,           \* "recv" | "lock" | "dead"
    apply_msg,          \* the deserialised message and its handle result
    storage,            \* the Bitcask of every node
    \* configuration (cli.rs: the peer set) and the clients' workload
    peers,              \* the nodes of the cluster
    clients,            \* per connection: its node and what the client sends
    \* Raft
    raft_log,           \* committed payloads, in commit order
    delivered,          \* how many of them Raft sent to each node
    raft_in_closed,     \* Raft dropped the receiver of propose_in
    \* history
    issued,             \* the writes admitted so far, by request id
    applied_log,        \* request ids in the order handle ran, per node
    last_applied,       \* per node and key, the id of the last entry applied
    handle_result,      \* per node and id, what handle returned ("" before)
    removed,            \* per node and id, removals from the RequestMap
    notified,           \* per id, results sent successfully on the one-shot
    warned,             \* per id, failed sends on the one-shot (warn!)
    reply_of,           \* per id, the frames the client got for that write
    \* the wire
    received,           \* per connection, the last chunk of bytes its handler
                        \*   decoded, with the outcome of the decode
    codec_value,        \* RespCodec on its own: the value encoded,
    codec_input,        \*   the bytes given to decode,
    codec_result,       \*   what decode returned,
    codec_cmd           \*   and the Cmd parsed from the decoded value

conn_vars == <<conn_pc, conn_req, last_reply, oneshot>>
sync_vars == <<sync_request_chan, submit_pc, submit_req, map_lock, request_map,
               propose_in, committed_out, apply_pc, apply_msg, storage>>
raft_vars == <<raft_log, delivered, raft_in_closed, peers>>
ConnNode(c) == clients[c].node
hist_vars == <<issued, applied_log, last_applied, handle_result, removed, notified,
               warned, reply_of>>
wire_vars == <<received, codec_value, codec_input, codec_result, codec_cmd>>
vars == <<conn_vars, sync_vars, raft_vars, hist_vars, clients, wire_vars>>

NoReply == [cmd |-> "", key |-> "", id |-> 0, frame |-> ""]

\* A client: the node it is connected to, the writes it may send (each one
\* once, or any number of times), the keys it reads, and the other chunks of
\* bytes it may send.
Client(node, writes, once, reads) ==
    [node |-> node, writes |-> writes, once |-> once, reads |-> reads, chunks |-> {},
     limit |-> MaxWrites]
Idle(node) == Client(node, {}, TRUE, {})

Set(k, v) == [tag |-> "Put", key |-> k, value |-> v, option |-> None]
SetNX(k, v) == [tag |-> "Put", key |-> k, value |-> v, option |-> PutOptionSerde_nx]
SetXX(k, v) == [tag |-> "Put", key |-> k, value |-> v, option |-> PutOptionSerde_xx]
Del(k) == [tag |-> "Del", key |-> k, value |-> "", option |-> None]

\* One node; A sends SET k 1, SET k 1 NX or DEL k and reads k, B sends
\* SET k 2, SET k 2 XX or DEL k, each any number of times.
SingleNode == {"node1"}
SingleNodeClients ==
    [c \in Conns |->
        CASE c = "A" -> Client("node1", {Set("k", "1"), SetNX("k", "1"), Del("k")}, FALSE, Keys)
          [] c = "B" -> Client("node1", {Set("k", "2"), SetXX("k", "2"), Del("k")}, FALSE, {})
          [] OTHER -> Idle("node1")]

\* Three nodes; A sends SET k 1 to node1, B sends SET k 2 to node2, C reads
\* k on node3.
ClusterClients ==
    [c \in Conns |->
        CASE c = "A" -> Client("node1", {Set("k", "1")}, TRUE, {})
          [] c = "B" -> Client("node2", {Set("k", "2")}, TRUE, {})
          [] OTHER -> Client("node3", {}, TRUE, Keys)]

\* One node whose Raft may stop; A sends SET k 1 and DEL k, B sends SET k 2,
\* C reads k.
FaultClients ==
    [c \in Conns |->
        CASE c = "A" -> Client("node1", {Set("k", "1"), Del("k")}, TRUE, {})
          [] c = "B" -> Client("node1", {Set("k", "2")}, TRUE, {})
          [] OTHER -> Client("node1", {}, TRUE, Keys)]

\* Two nodes; A sends SET k 1 and SET k 1 XX to node1, B sends SET k 2 NX to
\* node2 and C reads k on node2, each command once.
TwoNodes == {"node1", "node2"}
ConditionalClients ==
    [c \in Conns |->
        CASE c = "A" -> Client("node1", {Set("k", "1"), SetXX("k", "1")}, TRUE, {})
          [] c = "B" -> Client("node2", {SetNX("k", "2")}, TRUE, {})
          [] OTHER -> Client("node2", {}, TRUE, Keys)]

\* One node; A sends SET k 1 again and again, enough times to fill the
\* pipeline of the node, and C reads k.
BackpressureClients ==
    [c \in Conns |->
        CASE c = "A" -> [Client("node1", {Set("k", "1")}, FALSE, {}) EXCEPT !.limit = FillWrites]
          [] c = "C" -> Client("node1", {}, TRUE, Keys)
          [] OTHER -> Idle("node1")]

\* One node; A sends SET k 1 NX and DEL k, B sends SET k 2, each once, and C
\* reads k.
ReplayClients ==
    [c \in Conns |->
        CASE c = "A" -> Client("node1", {SetNX("k", "1"), Del("k")}, TRUE, {})
          [] c = "B" -> Client("node1", {Set("k", "2")}, TRUE, {})
          [] OTHER -> Client("node1", {}, TRUE, Keys)]

\* The frame of a command: an array of bulk strings.
RECURSIVE BulkStrings(_)
BulkStrings(parts) ==
    IF parts = << >> THEN << >>
    ELSE <<BulkString(Some(Head(parts)))>> \o BulkStrings(Tail(parts))
CommandFrame(parts) == encode(Array(BulkStrings(parts)))

\* Chunks that are no GET, SET or DEL: a PING, frames that are not a valid
\* command, bytes that do not decode, and the end of the stream.
OtherChunks ==
    { CommandFrame(<<"PING">>),
      CommandFrame(<<"PING", "x">>),
      CommandFrame(<<"FOO", "k">>),
      CommandFrame(<<"GET">>),
      CommandFrame(<<"DEL", "k", "k">>),
      CommandFrame(<<"SET", "k", "1", "ZZ">>),
      encode(Array(<<BulkString(Some("GET")), BulkString(None)>>)),
      encode(Array(<<BulkString(Some("GET")), Integer(1)>>)),
      encode(Array(<< >>)),
      encode(SimpleString("OK")),
      encode(Integer(7)),
      "+OK",
      "?\r\n",
      ":x\r\n",
      "$\r\n",
      "+#\r\n",
      "$1\r\nabc\r\n",
      "$-2\r\n",
      "$3\r\na",
      "" }

\* One node; A reads k, B sends any of the other chunks and SET k 2.
ChunkClients ==
    [c \in Conns |->
        CASE c = "A" -> Client("node1", {}, TRUE, Keys)
          [] c = "B" -> [Client("node1", {Set("k", "2")}, TRUE, {}) EXCEPT !.chunks = OtherChunks]
          [] OTHER -> Idle("node1")]

InitWith(p, cl) ==
    /\ peers = p
    /\ clients = cl
    /\ conn_pc = [c \in Conns |-> "reading"]
    /\ conn_req = [c \in Conns |-> None]
    /\ last_reply = [c \in Conns |-> NoReply]
    /\ oneshot = [i \in Ids |-> "unused"]
    /\ sync_request_chan = [n \in Nodes |-> << >>]
    /\ submit_pc = [n \in Nodes |-> "recv"]
    /\ submit_req = [n \in Nodes |-> None]
    /\ map_lock = [n \in Nodes |-> "free"]
    /\ request_map = [n \in Nodes |-> {}]
    /\ propose_in = [n \in Nodes |-> << >>]
    /\ committed_out = [n \in Nodes |-> << >>]
    /\ apply_pc = [n \in Nodes |-> "recv"]
    /\ apply_msg = [n \in Nodes |-> None]
    /\ storage = [n \in Nodes |-> EmptyStore]
    /\ raft_log = << >>
    /\ delivered = [n \in Nodes |-> 0]
    /\ raft_in_closed = [n \in Nodes |-> FALSE]
    /\ issued = << >>
    /\ applied_log = [n \in Nodes |-> << >>]
    /\ last_applied = [n \in Nodes |-> [k \in Keys |-> 0]]
    /\ handle_result = [n \in Nodes |-> [i \in Ids |-> ""]]
    /\ removed = [n \in Nodes |-> [i \in Ids |-> 0]]
    /\ notified = [i \in Ids |-> 0]
    /\ warned = [i \in Ids |-> 0]
    /\ reply_of = [i \in Ids |-> << >>]
    /\ received = [c \in Conns |-> None]
    /\ codec_value = None
    /\ codec_input = ""
    /\ codec_result = None
    /\ codec_cmd = None

Init == InitWith(SingleNode, SingleNodeClients)
InitCluster == InitWith(Nodes, ClusterClients)
InitFault == InitWith(SingleNode, FaultClients)
InitConn == InitWith(SingleNode, ChunkClients)
InitCond == InitWith(TwoNodes, ConditionalClients)
InitBackpressure == InitWith(SingleNode, BackpressureClients)
InitReplay == InitWith(SingleNode, ReplayClients)

(***************************************************************************)
(* RequestMap: HashMap<RequestId, oneshot::Sender>, as a set of entries.   *)
(***************************************************************************)
MapKeys(map) == {e.id : e \in map}
\* An insert that leaves the map as it was.
MapInsert_Skip(map, id, answer) == map

MapInsert(map, id, answer) ==
    {e \in map : e.id # id} \cup {[id |-> id, answer |-> answer]}
\* A removal that leaves the entry in the map.
MapRemove_Keep(map, id) == map

MapRemove(map, id) == {e \in map : e.id # id}
MapGet(map, id) == CHOOSE e \in map : e.id = id

(***************************************************************************)
(* connection.rs                                                           *)
(***************************************************************************)
\* A handle_write that answers +OK whatever the application result.
WriteReply_OkOnErr(outcome) ==
    CASE outcome \in {"Ok", "Err"} -> SimpleString("OK")
      [] outcome = "Closed" -> Error("Request timeout")
      [] outcome = "Elapsed" -> Error("Internal error")
\* A handle_write with the messages of its two failure arms exchanged.
WriteReply_Swapped(outcome) ==
    CASE outcome = "Ok" -> SimpleString("OK")
      [] outcome = "Err" -> BulkString(None)
      [] outcome = "Closed" -> Error("Internal error")
      [] outcome = "Elapsed" -> Error("Request timeout")

\* handle_write, the match on timeout(10 s, rx): the frame for each outcome
\* of the wait.  "Ok"/"Err": the application result arrived; "Closed": the
\* sender was dropped without a result; "Elapsed": the 10 seconds passed.
WriteReply(outcome) ==
    CASE outcome = "Ok" -> SimpleString("OK")
      [] outcome = "Err" -> BulkString(None)
      [] outcome = "Closed" -> Error("Request timeout")
      [] outcome = "Elapsed" -> Error("Internal error")

\* A handle_read that answers without consulting storage.
ReadReply_Absent(store, key) == BulkString(None)

\* handle_read: the frame for a GET, read from the node's own storage.
ReadReply(store, key) == BulkString(KV_get(store, key))

CmdName(m) == IF m.tag = "Put" THEN "SET" ELSE "DEL"

\* The task writes the reply of the awaited write and reads the next frame.
Reply(c, outcome) ==
    LET m == Unwrap(conn_req[c])
        frame == encode(WriteReply(outcome))
    IN  /\ last_reply' = [last_reply EXCEPT ![c] =
                [cmd |-> CmdName(m), key |-> m.key, id |-> m.id, frame |-> frame]]
        /\ reply_of' = [reply_of EXCEPT ![m.id] = Append(@, frame)]
        /\ conn_pc' = [conn_pc EXCEPT ![c] = "reading"]
        /\ conn_req' = [conn_req EXCEPT ![c] = None]

\* A handler that takes the next write while the reply to the current one is
\* still awaited.
ConnWrite_Pipelined(c, cmd) ==
    LET n == ConnNode(c)
        id == Len(issued) + 1
        m == InnerCmd_new(cmd, id)
    IN  /\ conn_pc[c] \in {"reading", "awaiting"}
        /\ cmd \in clients[c].writes
        /\ Len(issued) < clients[c].limit
        /\ clients' = [clients EXCEPT ![c].writes =
                IF clients[c].once THEN @ \ {cmd} ELSE @]
        /\ submit_pc[n] # "dead"
        /\ Len(sync_request_chan[n]) < IntakeCap
        /\ oneshot' = [oneshot EXCEPT ![id] = "pending"]
        /\ sync_request_chan' = [sync_request_chan EXCEPT ![n] =
                Append(@, [message |-> m, answer |-> id])]
        /\ conn_pc' = [conn_pc EXCEPT ![c] = "awaiting"]
        /\ conn_req' = [conn_req EXCEPT ![c] = Some(m)]
        /\ issued' = Append(issued, [conn |-> c, message |-> m])
        /\ UNCHANGED <<wire_vars, last_reply, submit_pc, submit_req, map_lock, request_map,
                       propose_in, committed_out, apply_pc, apply_msg, storage,
                       raft_vars, applied_log, last_applied, handle_result,
                       removed, notified, warned, reply_of>>

\* handle -> handle_valid_cmd -> handle_write, up to the wait: a SET or DEL
\* is decoded, gets a fresh request id and a one-shot channel, and is sent
\* on the SyncRequest channel (the send suspends while the channel is full).
ConnWrite(c, cmd) ==
    LET n == ConnNode(c)
        id == Len(issued) + 1
        m == InnerCmd_new(cmd, id)
    IN  /\ conn_pc[c] = "reading"
        /\ cmd \in clients[c].writes
        /\ Len(issued) < clients[c].limit
        /\ clients' = [clients EXCEPT ![c].writes =
                IF clients[c].once THEN @ \ {cmd} ELSE @]
        /\ submit_pc[n] # "dead"
        /\ Len(sync_request_chan[n]) < IntakeCap
        /\ oneshot' = [oneshot EXCEPT ![id] = "pending"]
        /\ sync_request_chan' = [sync_request_chan EXCEPT ![n] =
                Append(@, [message |-> m, answer |-> id])]
        /\ conn_pc' = [conn_pc EXCEPT ![c] = "awaiting"]
        /\ conn_req' = [conn_req EXCEPT ![c] = Some(m)]
        /\ issued' = Append(issued, [conn |-> c, message |-> m])
        /\ UNCHANGED <<wire_vars, last_reply, submit_pc, submit_req, map_lock, request_map,
                       propose_in, committed_out, apply_pc, apply_msg, storage,
                       raft_vars, applied_log, last_applied, handle_result,
                       removed, notified, warned, reply_of>>

\* handle_write, Ok(Ok(res)): the application result arrived within the wait.
ConnResult(c) ==
    /\ conn_pc[c] = "awaiting"
    /\ oneshot[Unwrap(conn_req[c]).id] \in {"Ok", "Err"}
    /\ Reply(c, oneshot[Unwrap(conn_req[c]).id])
    /\ oneshot' = [oneshot EXCEPT ![Unwrap(conn_req[c]).id] = "done"]
    /\ UNCHANGED <<wire_vars, clients, sync_vars, raft_vars, issued, applied_log, last_applied,
                   handle_result, removed, notified, warned>>

\* handle_write, Ok(Err(_)): the sender was dropped without a result.
ConnClosed(c) ==
    /\ conn_pc[c] = "awaiting"
    /\ oneshot[Unwrap(conn_req[c]).id] = "tx_dropped"
    /\ Reply(c, "Closed")
    /\ oneshot' = [oneshot EXCEPT ![Unwrap(conn_req[c]).id] = "closed"]
    /\ UNCHANGED <<wire_vars, clients, sync_vars, raft_vars, issued, applied_log, last_applied,
                   handle_result, removed, notified, warned>>

\* A handler that, when its wait elapses, takes its entry out of the
\* RequestMap.
ConnTimeout_Cancel(c) ==
    /\ conn_pc[c] = "awaiting"
    /\ oneshot[Unwrap(conn_req[c]).id] = "pending"
    /\ Reply(c, "Elapsed")
    /\ oneshot' = [oneshot EXCEPT ![Unwrap(conn_req[c]).id] = "rx_dropped"]
    /\ request_map' = [request_map EXCEPT ![ConnNode(c)] =
            MapRemove(@, Unwrap(conn_req[c]).id)]
    /\ UNCHANGED <<wire_vars, clients, sync_request_chan, submit_pc, submit_req, map_lock,
                   propose_in, committed_out, apply_pc, apply_msg, storage,
                   raft_vars, issued, applied_log, last_applied,
                   handle_result, removed, notified, warned>>

\* handle_write, Err(_): 10 seconds passed with nothing on the one-shot; the
\* receiver is dropped with the timeout future.
ConnTimeout(c) ==
    /\ conn_pc[c] = "awaiting"
    /\ oneshot[Unwrap(conn_req[c]).id] = "pending"
    /\ Reply(c, "Elapsed")
    /\ oneshot' = [oneshot EXCEPT ![Unwrap(conn_req[c]).id] = "rx_dropped"]
    /\ UNCHANGED <<wire_vars, clients, sync_vars, raft_vars, issued, applied_log, last_applied,
                   handle_result, removed, notified, warned>>

\* handle -> handle_valid_cmd -> handle_read.
ConnGet(c, key) ==
    /\ conn_pc[c] = "reading"
    /\ key \in clients[c].reads
    /\ last_reply' = [last_reply EXCEPT ![c] =
            [cmd |-> "GET", key |-> key, id |-> 0,
             frame |-> encode(ReadReply(storage[ConnNode(c)], key))]]
    /\ UNCHANGED <<wire_vars, clients, conn_pc, conn_req, oneshot, sync_vars, raft_vars, hist_vars>>

(***************************************************************************)
(* connection.rs: one turn of the loop of Connection::handle, on what      *)
(* decode returned.                                                        *)
(***************************************************************************)
Turn(do, cmd, msg) == [do |-> do, cmd |-> cmd, msg |-> msg]

\* The match on the result of decode, then Cmd::from, InnerCmd::new and
\* handle_valid_cmd: reply with an Error and go on, return, panic, or serve
\* the command.  handle_valid_cmd has arms for Get, Put and Del only: a Ping
\* gets no reply.
Connection_handle(r) ==
    IF ~r.ok
    THEN CASE r.err = Panic -> Turn("panic", "", NoValue)
           [] r.err = IoError("UnexpectedEof") -> Turn("returned_ok", "", NoValue)
           [] r.err.error = "IoError" -> Turn("returned_err", "", NoValue)
           [] OTHER -> Turn("reply", "ERROR", Error("Err " \o ConnectionError_fmt(r.err)))
    ELSE LET cmd == Cmd_from(r.value)
             inner_cmd == InnerCmd_args(cmd)
         IN  CASE cmd = Cmd_Panic -> Turn("panic", "", NoValue)
               [] ~IsSome(inner_cmd) ->
                    Turn("reply", "UNKNOWN",
                         Error("Err unknown command " \o RespValue_fmt(r.value)))
               [] Unwrap(inner_cmd).tag = "Ping" -> Turn("none", "PING", NoValue)
               [] OTHER -> Turn("serve", "", NoValue)

\* What the handler of c did last: the bytes and the outcome of the decode.
Received(input, r) == Some([input |-> input, result |-> r])

\* A decode error that is not an IO error, or a frame that is no command: an
\* Error frame is written and the loop goes on.
ConnError(c, input) ==
    LET r == decode(input)
        turn == Connection_handle(r)
    IN  /\ conn_pc[c] = "reading"
        /\ input \in clients[c].chunks
        /\ turn.do = "reply"
        /\ last_reply' = [last_reply EXCEPT ![c] =
                [cmd |-> turn.cmd, key |-> "", id |-> 0, frame |-> encode(turn.msg)]]
        /\ received' = [received EXCEPT ![c] = Received(input, r)]
        /\ UNCHANGED <<codec_value, codec_input, codec_result, codec_cmd, clients,
                       conn_pc, conn_req, oneshot, sync_vars, raft_vars, hist_vars>>

\* A PING: InnerCmd::new returns Ok(Ping), for which handle_valid_cmd writes
\* nothing.
ConnPing(c, input) ==
    LET r == decode(input)
        turn == Connection_handle(r)
    IN  /\ conn_pc[c] = "reading"
        /\ input \in clients[c].chunks
        /\ turn.do = "none"
        /\ last_reply' = [last_reply EXCEPT ![c] =
                [cmd |-> turn.cmd, key |-> "", id |-> 0, frame |-> ""]]
        /\ received' = [received EXCEPT ![c] = Received(input, r)]
        /\ UNCHANGED <<codec_value, codec_input, codec_result, codec_cmd, clients,
                       conn_pc, conn_req, oneshot, sync_vars, raft_vars, hist_vars>>

\* The peer closed (UnexpectedEof from read_exact): handle returns Ok(()).
ConnEof(c, input) ==
    LET r == decode(input)
        turn == Connection_handle(r)
    IN  /\ conn_pc[c] = "reading"
        /\ input \in clients[c].chunks
        /\ turn.do \in {"returned_ok", "returned_err"}
        /\ conn_pc' = [conn_pc EXCEPT ![c] = turn.do]
        /\ received' = [received EXCEPT ![c] = Received(input, r)]
        /\ UNCHANGED <<codec_value, codec_input, codec_result, codec_cmd, clients,
                       conn_req, last_reply, oneshot, sync_vars, raft_vars, hist_vars>>

\* The socket fails with another IO error while decode reads: handle returns
\* the error.
ConnIoError(c) ==
    LET r == Err(IoError("ConnectionReset"))
        turn == Connection_handle(r)
    IN  /\ conn_pc[c] = "reading"
        /\ clients[c].chunks # {}
        /\ conn_pc' = [conn_pc EXCEPT ![c] = turn.do]
        /\ received' = [received EXCEPT ![c] = Received("", r)]
        /\ UNCHANGED <<codec_value, codec_input, codec_result, codec_cmd, clients,
                       conn_req, last_reply, oneshot, sync_vars, raft_vars, hist_vars>>

\* decode or Cmd::from panics: the task of the connection unwinds.
ConnPanic(c, input) ==
    LET r == decode(input)
        turn == Connection_handle(r)
    IN  /\ conn_pc[c] = "reading"
        /\ input \in clients[c].chunks
        /\ turn.do = "panic"
        /\ conn_pc' = [conn_pc EXCEPT ![c] = "dead"]
        /\ received' = [received EXCEPT ![c] = Received(input, r)]
        /\ UNCHANGED <<codec_value, codec_input, codec_result, codec_cmd, clients,
                       conn_req, last_reply, oneshot, sync_vars, raft_vars, hist_vars>>

(***************************************************************************)
(* sync_layer.rs: the submit task.                                         *)
(***************************************************************************)
\* sync_request_rx.recv().await
SubmitRecv(n) ==
    /\ submit_pc[n] = "recv"
    /\ sync_request_chan[n] # << >>
    /\ submit_req' = [submit_req EXCEPT ![n] = Some(Head(sync_request_chan[n]))]
    /\ sync_request_chan' = [sync_request_chan EXCEPT ![n] = Tail(@)]
    /\ submit_pc' = [submit_pc EXCEPT ![n] = "lock"]
    /\ UNCHANGED <<wire_vars, clients, conn_vars, map_lock, request_map, propose_in, committed_out,
                   apply_pc, apply_msg, storage, raft_vars, hist_vars>>

\* request_map.lock().await; request_map.insert(request_id, request.answer)
SubmitInsert(n) ==
    LET request == Unwrap(submit_req[n])
    IN  /\ submit_pc[n] = "lock"
        /\ map_lock[n] = "free"
        /\ map_lock' = [map_lock EXCEPT ![n] = "submit"]
        /\ request_map' = [request_map EXCEPT ![n] =
                MapInsert(@, get_request_id(request.message), request.answer)]
        /\ submit_pc' = [submit_pc EXCEPT ![n] = "send"]
        /\ UNCHANGED <<wire_vars, clients, conn_vars, sync_request_chan, submit_req, propose_in,
                       committed_out, apply_pc, apply_msg, storage, raft_vars,
                       hist_vars>>

\* A submit task that answers the client as soon as the payload is proposed.
SubmitSend_AckOnPropose(n) ==
    LET request == Unwrap(submit_req[n])
    IN  /\ submit_pc[n] = "send"
        /\ ~raft_in_closed[n]
        /\ Len(propose_in[n]) < ProposeCap
        /\ propose_in' = [propose_in EXCEPT ![n] = Append(@, Serialize(request.message))]
        /\ oneshot' = [oneshot EXCEPT ![request.answer] =
                IF @ = "pending" THEN "Ok" ELSE @]
        /\ map_lock' = [map_lock EXCEPT ![n] = "free"]
        /\ submit_pc' = [submit_pc EXCEPT ![n] = "recv"]
        /\ submit_req' = [submit_req EXCEPT ![n] = None]
        /\ UNCHANGED <<wire_vars, clients, conn_pc, conn_req, last_reply, sync_request_chan,
                       request_map, committed_out, apply_pc, apply_msg, storage,
                       raft_vars, hist_vars>>

\* btx.send(raw_payload).await, then the guard of the mutex goes out of scope.
SubmitSend(n) ==
    LET request == Unwrap(submit_req[n])
    IN  /\ submit_pc[n] = "send"
        /\ ~raft_in_closed[n]
        /\ Len(propose_in[n]) < ProposeCap
        /\ propose_in' = [propose_in EXCEPT ![n] = Append(@, Serialize(request.message))]
        /\ map_lock' = [map_lock EXCEPT ![n] = "free"]
        /\ submit_pc' = [submit_pc EXCEPT ![n] = "recv"]
        /\ submit_req' = [submit_req EXCEPT ![n] = None]
        /\ UNCHANGED <<wire_vars, clients, conn_vars, sync_request_chan, request_map, committed_out,
                       apply_pc, apply_msg, storage, raft_vars, hist_vars>>

(***************************************************************************)
(* Raft at its interface: proposals are committed into one log, and every  *)
(* node is sent the log in order, each entry once.                         *)
(***************************************************************************)
RaftCommit(n) ==
    /\ ~raft_in_closed[n]
    /\ propose_in[n] # << >>
    /\ raft_log' = Append(raft_log, Head(propose_in[n]))
    /\ propose_in' = [propose_in EXCEPT ![n] = Tail(@)]
    /\ UNCHANGED <<wire_vars, clients, conn_vars, sync_request_chan, submit_pc, submit_req, map_lock,
                   request_map, committed_out, apply_pc, apply_msg, storage,
                   delivered, raft_in_closed, peers, hist_vars>>

\* Raft as one task: it takes the next proposal only when it is not suspended
\* in a send to committed_out.
RaftCommitInTurn(n) ==
    /\ \A p \in peers : delivered[p] = Len(raft_log)
    /\ RaftCommit(n)

RaftDeliver(n) ==
    /\ n \in peers
    /\ delivered[n] < Len(raft_log)
    /\ Len(committed_out[n]) < CommittedCap
    /\ committed_out' = [committed_out EXCEPT ![n] = Append(@, raft_log[delivered[n] + 1])]
    /\ delivered' = [delivered EXCEPT ![n] = @ + 1]
    /\ UNCHANGED <<wire_vars, clients, conn_vars, sync_request_chan, submit_pc, submit_req, map_lock,
                   request_map, propose_in, apply_pc, apply_msg, storage,
                   raft_log, raft_in_closed, peers, hist_vars>>

\* A replay: Raft delivers to n an entry it has delivered to n before.
RaftReplay(n, j) ==
    /\ n \in peers
    /\ j \in 1 .. delivered[n]
    /\ Len(committed_out[n]) < CommittedCap
    /\ Len(applied_log[n]) + Len(committed_out[n]) < delivered[n] + MaxReplays
    /\ committed_out' = [committed_out EXCEPT ![n] = Append(@, raft_log[j])]
    /\ UNCHANGED <<wire_vars, clients, conn_vars, sync_request_chan, submit_pc, submit_req, map_lock,
                   request_map, propose_in, apply_pc, apply_msg, storage,
                   raft_vars, hist_vars>>

(***************************************************************************)
(* sync_layer.rs: the apply task.                                          *)
(***************************************************************************)
\* A receive that takes the newest payload of the channel.
recv_Newest(chan) ==
    [payload |-> chan[Len(chan)], rest |-> SubSeq(chan, 1, Len(chan) - 1)]
\* A receive that leaves the payload in the channel.
recv_Peek(chan) == [payload |-> Head(chan), rest |-> chan]

\* mrx.recv(): the oldest payload of the channel, and the channel without it.
recv(chan) == [payload |-> Head(chan), rest |-> Tail(chan)]

\* An apply task that leaves storage alone when the request id of the entry
\* is not in the RequestMap of its node.
ApplyHandle_LocalOnly(n) ==
    LET raw_payload == recv(committed_out[n])
        sync_message == Deserialize(raw_payload.payload)
        local == sync_message.id \in MapKeys(request_map[n])
        r == IF local THEN handle(sync_message, storage[n])
             ELSE [store |-> storage[n], result |-> "Ok"]
    IN  /\ apply_pc[n] = "recv"
        /\ committed_out[n] # << >>
        /\ committed_out' = [committed_out EXCEPT ![n] = raw_payload.rest]
        /\ storage' = [storage EXCEPT ![n] = r.store]
        /\ apply_msg' = [apply_msg EXCEPT ![n] =
                Some([message |-> sync_message, result |-> r.result])]
        /\ apply_pc' = [apply_pc EXCEPT ![n] = IF r.result = "panic" THEN "dead" ELSE "lock"]
        /\ applied_log' = [applied_log EXCEPT ![n] = Append(@, sync_message.id)]
        /\ last_applied' = [last_applied EXCEPT ![n][sync_message.key] = sync_message.id]
        /\ handle_result' = [handle_result EXCEPT ![n][sync_message.id] = r.result]
        /\ UNCHANGED <<wire_vars, clients, conn_vars, sync_request_chan, submit_pc, submit_req, map_lock,
                       request_map, propose_in, raft_vars, issued, removed,
                       notified, warned, reply_of>>

\* mrx.recv().await; deserialize; sync_message.handle(&mut storage)
ApplyHandle(n) ==
    LET raw_payload == recv(committed_out[n])
        sync_message == Deserialize(raw_payload.payload)
        r == handle(sync_message, storage[n])
    IN  /\ apply_pc[n] = "recv"
        /\ committed_out[n] # << >>
        /\ committed_out' = [committed_out EXCEPT ![n] = raw_payload.rest]
        /\ storage' = [storage EXCEPT ![n] = r.store]
        /\ apply_msg' = [apply_msg EXCEPT ![n] =
                Some([message |-> sync_message, result |-> r.result])]
        /\ apply_pc' = [apply_pc EXCEPT ![n] = IF r.result = "panic" THEN "dead" ELSE "lock"]
        /\ applied_log' = [applied_log EXCEPT ![n] = Append(@, sync_message.id)]
        /\ last_applied' = [last_applied EXCEPT ![n][sync_message.key] = sync_message.id]
        /\ handle_result' = [handle_result EXCEPT ![n][sync_message.id] = r.result]
        /\ UNCHANGED <<wire_vars, clients, conn_vars, sync_request_chan, submit_pc, submit_req, map_lock,
                       request_map, propose_in, raft_vars, issued, removed,
                       notified, warned, reply_of>>

\* An apply task that unwraps the result of tx.send: it panics when the
\* receiver is gone.
ApplyNotify_Unwrap(n) ==
    LET cur == Unwrap(apply_msg[n])
        request_id == get_request_id(cur.message)
        present == request_id \in MapKeys(request_map[n])
        tx == MapGet(request_map[n], request_id).answer
    IN  /\ apply_pc[n] = "lock"
        /\ map_lock[n] = "free"
        /\ request_map' = [request_map EXCEPT ![n] = MapRemove(@, request_id)]
        /\ removed' = [removed EXCEPT ![n][request_id] = IF present THEN @ + 1 ELSE @]
        /\ oneshot' = IF present /\ oneshot[tx] = "pending"
                      THEN [oneshot EXCEPT ![tx] = cur.result] ELSE oneshot
        /\ notified' = IF present /\ oneshot[tx] = "pending"
                       THEN [notified EXCEPT ![tx] = @ + 1] ELSE notified
        /\ apply_pc' = [apply_pc EXCEPT ![n] =
                IF present /\ oneshot[tx] # "pending" THEN "dead" ELSE "recv"]
        /\ apply_msg' = [apply_msg EXCEPT ![n] = None]
        /\ UNCHANGED <<wire_vars, clients, conn_pc, conn_req, last_reply, sync_request_chan, submit_pc,
                       submit_req, map_lock, propose_in, committed_out, storage,
                       raft_vars, issued, applied_log, last_applied, handle_result,
                       warned, reply_of>>

\* request_map.lock().await; if let Some(tx) = request_map.remove(&request_id)
\* { if tx.send(result).is_err() { warn!(..) } }; the guard is dropped at the
\* end of the iteration, before the next recv.
ApplyNotify(n) ==
    LET cur == Unwrap(apply_msg[n])
        request_id == get_request_id(cur.message)
    IN  /\ apply_pc[n] = "lock"
        /\ map_lock[n] = "free"
        /\ IF request_id \in MapKeys(request_map[n])
           THEN LET tx == MapGet(request_map[n], request_id).answer
                IN  /\ request_map' = [request_map EXCEPT ![n] = MapRemove(@, request_id)]
                    /\ removed' = [removed EXCEPT ![n][request_id] = @ + 1]
                    /\ IF oneshot[tx] = "pending"
                       THEN /\ oneshot' = [oneshot EXCEPT ![tx] = cur.result]
                            /\ notified' = [notified EXCEPT ![tx] = @ + 1]
                            /\ UNCHANGED warned
                       ELSE /\ warned' = [warned EXCEPT ![tx] = @ + 1]
                            /\ UNCHANGED <<oneshot, notified>>
           ELSE UNCHANGED <<request_map, removed, oneshot, notified, warned>>
        /\ apply_pc' = [apply_pc EXCEPT ![n] = "recv"]
        /\ apply_msg' = [apply_msg EXCEPT ![n] = None]
        /\ UNCHANGED <<wire_vars, clients, conn_pc, conn_req, last_reply, sync_request_chan, submit_pc,
                       submit_req, map_lock, propose_in, committed_out, storage,
                       raft_vars, issued, applied_log, last_applied, handle_result,
                       reply_of>>

(***************************************************************************)
(* Raft stops taking proposals: the receiver of propose_in is dropped.     *)
(***************************************************************************)
RaftCloseInput(n) ==
    /\ n \in peers
    /\ ~raft_in_closed[n]
    /\ raft_in_closed' = [raft_in_closed EXCEPT ![n] = TRUE]
    /\ propose_in' = [propose_in EXCEPT ![n] = << >>]
    /\ UNCHANGED <<wire_vars, clients, conn_vars, sync_request_chan, submit_pc, submit_req, map_lock,
                   request_map, committed_out, apply_pc, apply_msg, storage,
                   raft_log, delivered, peers, hist_vars>>

\* btx.send(raw_payload).await.unwrap() on a closed channel: the submit task
\* panics.  Unwinding drops the mutex guard and the receiver of the
\* SyncRequest channel, and with it every queued SyncRequest and its Sender.
SubmitPanic(n) ==
    LET dropped == {sync_request_chan[n][i].answer : i \in 1 .. Len(sync_request_chan[n])}
    IN  /\ submit_pc[n] = "send"
        /\ raft_in_closed[n]
        /\ submit_pc' = [submit_pc EXCEPT ![n] = "dead"]
        /\ submit_req' = [submit_req EXCEPT ![n] = None]
        /\ map_lock' = [map_lock EXCEPT ![n] = "free"]
        /\ sync_request_chan' = [sync_request_chan EXCEPT ![n] = << >>]
        /\ oneshot' = [i \in Ids |->
                IF i \in dropped /\ oneshot[i] = "pending" THEN "tx_dropped" ELSE oneshot[i]]
        /\ UNCHANGED <<wire_vars, clients, conn_pc, conn_req, last_reply, request_map, propose_in,
                       committed_out, apply_pc, apply_msg, storage, raft_vars,
                       hist_vars>>

\* sync_request_tx.send(..).await.expect(..) on a closed channel: the
\* connection task of a client that sends a write panics without a reply.
ConnWritePanic(c) ==
    /\ conn_pc[c] = "reading"
    /\ clients[c].writes # {}
    /\ submit_pc[ConnNode(c)] = "dead"
    /\ conn_pc' = [conn_pc EXCEPT ![c] = "dead"]
    /\ UNCHANGED <<wire_vars, clients, conn_req, last_reply, oneshot, sync_vars, raft_vars, hist_vars>>

Next ==
    \/ \E c \in Conns, cmd \in WriteCmds : ConnWrite(c, cmd)
    \/ \E c \in Conns : ConnResult(c)
    \/ \E c \in Conns : ConnTimeout(c)
    \/ \E c \in Conns, k \in Keys : ConnGet(c, k)
    \/ \E n \in Nodes : SubmitRecv(n)
    \/ \E n \in Nodes : SubmitInsert(n)
    \/ \E n \in Nodes : SubmitSend(n)
    \/ \E n \in Nodes : RaftCommit(n)
    \/ \E n \in Nodes : RaftDeliver(n)
    \/ \E n \in Nodes : ApplyHandle(n)
    \/ \E n \in Nodes : ApplyNotify(n)

Spec == Init /\ [][Next]_vars

\* The cluster of three nodes.
SpecCluster == InitCluster /\ [][Next]_vars

\* Two nodes and the conditional SETs.
SpecCond == InitCond /\ [][Next]_vars

\* One node whose Raft forwards one proposal at a time, and a client that
\* sends enough writes to fill the channels.
NextBackpressure ==
    \/ \E c \in Conns, cmd \in WriteCmds : ConnWrite(c, cmd)
    \/ \E c \in Conns : ConnResult(c)
    \/ \E c \in Conns : ConnTimeout(c)
    \/ \E c \in Conns, k \in Keys : ConnGet(c, k)
    \/ \E n \in Nodes : SubmitRecv(n)
    \/ \E n \in Nodes : SubmitInsert(n)
    \/ \E n \in Nodes : SubmitSend(n)
    \/ \E n \in Nodes : RaftCommitInTurn(n)
    \/ \E n \in Nodes : RaftDeliver(n)
    \/ \E n \in Nodes : ApplyHandle(n)
    \/ \E n \in Nodes : ApplyNotify(n)

SpecBackpressure == InitBackpressure /\ [][NextBackpressure]_vars

\* One node whose Raft may deliver an entry again.
NextReplay ==
    \/ Next
    \/ \E n \in Nodes, j \in Ids : RaftReplay(n, j)

SpecReplay == InitReplay /\ [][NextReplay]_vars

\* The single node, with a Raft node that may stop taking proposals.
NextFault ==
    \/ Next
    \/ \E n \in Nodes : RaftCloseInput(n)
    \/ \E n \in Nodes : SubmitPanic(n)
    \/ \E c \in Conns : ConnClosed(c)
    \/ \E c \in Conns : ConnWritePanic(c)

SpecFault == InitFault /\ [][NextFault]_vars

(***************************************************************************)
(* RespCodec and Cmd::from on their own: a value is encoded, or bytes are  *)
(* given, then decoded, and the decoded value is parsed as a command.      *)
(***************************************************************************)
Texts == {"", "OK", "a b"}
Integers32 == {0 - 2147483647, 0 - 12, 0 - 1, 0, 7, 10, 2147483647}
Payloads == {"", "a", "k", "\r\n", "$-1", NonUtf8, "+OK\r\n", "abc"}
Scalars ==
    {SimpleString(t) : t \in Texts} \cup {Error(t) : t \in Texts}
    \cup {Integer(i) : i \in Integers32}
    \cup {BulkString(None)} \cup {BulkString(Some(b)) : b \in Payloads}

\* The arrays of at most n items over a set of values.
RECURSIVE ArraysOver(_, _)
ArraysOver(items, n) ==
    IF n = 0 THEN {<< >>}
    ELSE LET shorter == ArraysOver(items, n - 1)
         IN  shorter \cup {Append(a, v) : a \in {x \in shorter : Len(x) = n - 1}, v \in items}

FlatItems ==
    {SimpleString("OK"), Error(""), Integer(0 - 1), BulkString(None), BulkString(Some("")),
     BulkString(Some("a"))}
NestedItems == {Array(<< >>), Array(<<Integer(7), BulkString(Some("a"))>>), BulkString(None)}

\* The arguments of the commands, in several casings of the verb.
CommandParts ==
    { <<"GET", "k">>, <<"get", "k">>, <<"Get", "k">>, <<"GET">>, <<"get">>,
      <<"DEL", "k">>, <<"del", "k">>, <<"DEL", "k", "k">>,
      <<"SET", "k", "1">>, <<"set", "k", "1">>, <<"sEt", "k", "1">>,
      <<"SET", "k", "1", "NX">>, <<"set", "k", "1", "NX">>,
      <<"SET", "k", "1", "XX">>, <<"SET", "k", "1", "ZZ">>, <<"SET", "k">>,
      <<"PING">>, <<"ping">>, <<"Ping">>, <<"PING", "x">>,
      <<"FOO", "k">>, <<"foo", "k">> }

RespValues ==
    Scalars
    \cup {Array(a) : a \in ArraysOver(FlatItems, MaxArrayLen)}
    \cup {Array(a) : a \in ArraysOver(NestedItems, MaxArrayLen)}
    \cup {Array(<<Array(<<Array(<< >>)>>)>>)}
    \cup {Array(BulkStrings(parts)) : parts \in CommandParts}

\* What may follow the encoded value on the wire.
Trailers == {"", "+x\r\n"}

\* Bulk strings by their header: a declared length and the bytes after it.
BulkBodies == {"", "\r\n", "a\r\n", "ab\r\n", "abc\r\n", "ab", "a\r\n+x\r\n", "\r\n\r\n"}
BulkInputs ==
    {"$" \o ToString(len) \o "\r\n" \o body :
        len \in (0 - MaxDeclaredLen) .. MaxDeclaredLen, body \in BulkBodies}

RawInputs == OtherChunks \cup BulkInputs \cup {"$+1\r\na\r\n", "$1x\r\na\r\n", "*1\r\n", "*2\r\n+a\r\n"}

CodecIdle == codec_value = None /\ codec_input = "" /\ codec_result = None

\* encode(v), followed on the wire by other bytes.
CodecEncode(v, trailer) ==
    /\ CodecIdle
    /\ codec_value' = Some(v)
    /\ codec_input' = encode(v) \o trailer
    /\ UNCHANGED <<codec_result, codec_cmd, received, conn_vars, sync_vars, raft_vars,
                   hist_vars, clients>>

\* Bytes that no encode produced.
CodecFeed(input) ==
    /\ CodecIdle
    /\ codec_input' = input
    /\ UNCHANGED <<codec_value, codec_result, codec_cmd, received, conn_vars, sync_vars,
                   raft_vars, hist_vars, clients>>

CodecDecode ==
    /\ codec_result = None
    /\ codec_result' = Some(decode(codec_input))
    /\ UNCHANGED <<codec_value, codec_input, codec_cmd, received, conn_vars, sync_vars,
                   raft_vars, hist_vars, clients>>

\* Cmd::from on the decoded value.
CodecParse ==
    /\ IsSome(codec_result)
    /\ Unwrap(codec_result).ok
    /\ codec_cmd = None
    /\ codec_cmd' = Some(Cmd_from(Unwrap(codec_result).value))
    /\ UNCHANGED <<codec_value, codec_input, codec_result, received, conn_vars, sync_vars,
                   raft_vars, hist_vars, clients>>

NextCodec ==
    \/ \E v \in RespValues, trailer \in Trailers : CodecEncode(v, trailer)
    \/ \E input \in RawInputs : CodecFeed(input)
    \/ CodecDecode
    \/ CodecParse

SpecCodec == Init /\ [][NextCodec]_vars

\* The same as Spec, with a client that sends the other chunks.
NextConn ==
    \/ Next
    \/ \E c \in Conns, input \in OtherChunks : ConnError(c, input)
    \/ \E c \in Conns, input \in OtherChunks : ConnPing(c, input)
    \/ \E c \in Conns, input \in OtherChunks : ConnEof(c, input)
    \/ \E c \in Conns : ConnIoError(c)
    \/ \E c \in Conns, input \in OtherChunks : ConnPanic(c, input)

SpecConn == InitConn /\ [][NextConn]_vars

(***************************************************************************)
(* Properties.                                                             *)
(***************************************************************************)
Range(seq) == {seq[i] : i \in 1 .. Len(seq)}
Count(seq, x) == Cardinality({i \in 1 .. Len(seq) : seq[i] = x})
Written == 1 .. Len(issued)
WriteNode(i) == ConnNode(issued[i].conn)
\* The client of write i got this frame as (one of) its replies.
Replied(i, frame) == \E j \in 1 .. Len(reply_of[i]) : reply_of[i][j] = frame

\* C1: a write is answered +OK only after its entry was committed and the
\* apply task of the node that took the write applied it to local storage.
AckOnlyAfterLocalApply ==
    \A i \in Written :
        Replied(i, "+OK\r\n") =>
            /\ Serialize(issued[i].message) \in Range(raft_log)
            /\ i \in Range(applied_log[WriteNode(i)])
            /\ handle_result[WriteNode(i)][i] = "Ok"

\* C1 happens: a DEL and a SET were both answered +OK.
AckOnlyAfterLocalApply_Witness ==
    /\ \E i \in Written : Replied(i, "+OK\r\n") /\ issued[i].message.tag = "Del"
    /\ \E i \in Written : Replied(i, "+OK\r\n") /\ issued[i].message.tag = "Put"

\* C2: a GET k on a node returns v when a SET k v taken by that node was
\* answered +OK and no other entry on k was applied there since.
ReadAfterAck ==
    [][\A c \in Conns, k \in Keys :
        ConnGet(c, k) =>
            \A i \in Written :
                ( /\ issued[i].message.tag = "Put"
                  /\ issued[i].message.key = k
                  /\ WriteNode(i) = ConnNode(c)
                  /\ Replied(i, "+OK\r\n")
                  /\ last_applied[ConnNode(c)][k] = i )
                => last_reply'[c].frame =
                     "$" \o ToString(Len(issued[i].message.value)) \o "\r\n"
                         \o issued[i].message.value \o "\r\n"]_vars

\* C2 happens: A's SET k 1 was answered +OK, nothing was applied on k since,
\* and A's GET k got the value.
ReadAfterAck_Witness ==
    \E i \in Written :
        /\ issued[i].conn = "A"
        /\ issued[i].message.tag = "Put"
        /\ Replied(i, "+OK\r\n")
        /\ last_applied[ConnNode("A")]["k"] = i
        /\ last_reply["A"] = [cmd |-> "GET", key |-> "k", id |-> 0, frame |-> "$1\r\n1\r\n"]

\* What a GET of key k on node n is answered with in the current state.
GetOn(n, k) == encode(ReadReply(storage[n], k))
\* Both clients of the cluster got +OK for their SET.
BothAcked ==
    /\ \E i \in Written : issued[i].conn = "A" /\ Replied(i, "+OK\r\n")
    /\ \E j \in Written : issued[j].conn = "B" /\ Replied(j, "+OK\r\n")
\* The apply task of node n has applied every committed entry.
AppliedAll(n) == Len(applied_log[n]) = Len(raft_log)

\* C3 as stated: once A (SET k 1 on node1) and B (SET k 2 on node2) both got
\* +OK, GET k returns the same on node1, node2 and node3.
ReadsAgreeAfterAcks ==
    BothAcked => \A n \in Nodes : GetOn(n, "k") = GetOn("node1", "k")

\* C3 amended: once both got +OK and every node has applied both committed
\* entries, GET k returns the same on node1, node2 and node3.
ReadsAgreeOnceApplied ==
    (BothAcked /\ \A n \in Nodes : AppliedAll(n))
        => \A n \in Nodes : GetOn(n, "k") = GetOn("node1", "k")

\* C3 happens: both acknowledged, every node applied both entries, and C read
\* the value of the entry committed last on node3.
ReadsAgreeOnceApplied_Witness ==
    /\ BothAcked
    /\ \A n \in Nodes : AppliedAll(n)
    /\ last_reply["C"].frame = GetOn("node1", "k")
    /\ last_reply["C"].frame = "$1\r\n1\r\n"

\* The store after handle ran on each payload of a sequence, in order.
RECURSIVE Replay(_, _)
Replay(payloads, store) ==
    IF payloads = << >> THEN store
    ELSE Replay(Tail(payloads), handle(Deserialize(Head(payloads)), store).store)

\* C4: on every replica the entries applied are, in order and without a gap,
\* the payloads Raft delivered on committed_out and the apply task took, and
\* storage is the result of applying them one after the other.
ApplyInDeliveryOrder ==
    \A n \in peers :
        LET m == Len(applied_log[n])
        IN  /\ m = delivered[n] - Len(committed_out[n])
            /\ \A j \in 1 .. m : applied_log[n][j] = get_request_id(Deserialize(raft_log[j]))
            /\ storage[n] = Replay(SubSeq(raft_log, 1, m), EmptyStore)

\* C4 happens: node3 applied B's SET k 2 and then A's SET k 1, delivered in
\* that order, while both payloads had been queued in committed_out.
ApplyInDeliveryOrder_Witness ==
    /\ Len(raft_log) = 2
    /\ applied_log["node3"] = <<2, 1>>
    /\ issued[1].conn = "A"
    /\ storage["node3"]["k"] = Some("1")
    /\ Len(committed_out["node2"]) = 2

\* C5: two replicas that applied the same number of committed entries hold
\* the same storage contents.
ReplicasAgree ==
    \A n1 \in peers, n2 \in peers :
        Len(applied_log[n1]) = Len(applied_log[n2]) => storage[n1] = storage[n2]

\* C5 happens: node1 and node2 applied one entry each and hold its value,
\* node3 applied two; one client timed out meanwhile.
ReplicasAgree_Witness ==
    /\ Len(applied_log["node1"]) = 1
    /\ Len(applied_log["node2"]) = 1
    /\ Len(applied_log["node3"]) = 2
    /\ storage["node1"]["k"] = Some("2")
    /\ storage["node3"]["k"] = Some("1")
    /\ \E i \in Written : oneshot[i] = "rx_dropped"

Submitted(i) ==
    \/ i \in MapKeys(request_map[WriteNode(i)])
    \/ removed[WriteNode(i)][i] > 0

ReplyFollowsResult ==
    \A i \in Written :
        oneshot[i] = "done" =>
            /\ handle_result[WriteNode(i)][i] \in {"Ok", "Err"}
            /\ reply_of[i] = << IF handle_result[WriteNode(i)][i] = "Ok"
                                THEN "+OK\r\n" ELSE "$-1\r\n" >>

\* C8 happens: a SET NX on an existing key was answered $-1 after a SET that
\* was answered +OK.
ReplyFollowsResult_Witness ==
    \E i \in Written, j \in Written :
        /\ reply_of[i] = <<"+OK\r\n">> /\ issued[i].message.tag = "Put"
        /\ reply_of[j] = <<"$-1\r\n">> /\ issued[j].message.option = PutOptionSerde_nx
        /\ handle_result["node1"][j] = "Err"

CommitTimeoutFrame ==
    \A i \in Written :
        oneshot[i] = "rx_dropped" => reply_of[i] = <<"-Err Request timeout\r\n">>

\* C11 as stated: a PING is answered +PONG by the connection handler.
PingAnsweredPong ==
    \A c \in Conns :
        last_reply[c].cmd = "PING" => last_reply[c].frame = encode(SimpleString("PONG"))

\* C12: a step that answers a GET leaves the intake channel, the Raft
\* channels and log, the RequestMap, the one-shots and storage as they were,
\* and answers with the value the key maps to in the storage of the node, or
\* with the null bulk string; and only Put and Del are ever committed or
\* reach the apply task.
ReadBypassesConsensus ==
    [][/\ \A c \in Conns :
            (last_reply'[c] # last_reply[c] /\ last_reply'[c].cmd = "GET") =>
                LET v == storage[ConnNode(c)][last_reply'[c].key]
                IN  /\ UNCHANGED <<sync_request_chan, propose_in, committed_out, raft_log,
                                   request_map, oneshot, issued, storage>>
                    /\ last_reply'[c].frame =
                            IF IsSome(v)
                            THEN "$" \o ToString(Len(Unwrap(v))) \o "\r\n" \o Unwrap(v) \o "\r\n"
                            ELSE "$-1\r\n"
       /\ \A j \in 1 .. Len(raft_log') : Deserialize(raft_log'[j]).tag \in {"Put", "Del"}
       /\ \A n \in Nodes :
            IsSome(apply_msg'[n]) => Unwrap(apply_msg'[n]).message.tag \in {"Put", "Del"}]_vars

\* C12 happens: A's GET was answered from storage with the value of an
\* applied SET while another write waits in the RequestMap, not yet proposed.
ReadBypassesConsensus_Witness ==
    /\ last_reply["A"].cmd = "GET"
    /\ last_reply["A"].frame = "$1\r\n2\r\n"
    /\ storage["node1"]["k"] = Some("2")
    /\ request_map["node1"] # {}
    /\ submit_pc["node1"] = "send"

\* ASCII upper-casing, over the letters of the verbs.
RECURSIVE to_ascii_uppercase(_)
to_ascii_uppercase(s) ==
    IF s = "" THEN ""
    ELSE LET ch == Head(s)
             up == CASE ch = "d" -> "D" [] ch = "e" -> "E" [] ch = "f" -> "F"
                     [] ch = "g" -> "G" [] ch = "i" -> "I" [] ch = "l" -> "L"
                     [] ch = "n" -> "N" [] ch = "o" -> "O" [] ch = "p" -> "P"
                     [] ch = "s" -> "S" [] ch = "t" -> "T" [] OTHER -> ch
         IN  up \o to_ascii_uppercase(Tail(s))

\* The value is a non-empty array of bulk strings.
IsCommandArray(value) ==
    /\ value.type = "Array"
    /\ value.items # << >>
    /\ \A i \in 1 .. Len(value.items) : value.items[i].type = "BulkString"

\* The same array with its verb upper-cased.
UpperVerb(value) ==
    Array(<<BulkString(Some(to_ascii_uppercase(
                convert_bulk_string_to_string(Head(value.items).bulk))))>>
          \o Tail(value.items))

\* The frames the specification calls no valid command: a value that is not
\* an array, an element that is not a bulk string, no element at all, and an
\* unsupported verb, wrong arity or unknown SET option whatever the casing of
\* the verb.
NotACommand(value) ==
    IF IsCommandArray(value) THEN Cmd_from(UpperVerb(value)) = Cmd_Unknown ELSE TRUE

\* C13 as stated: a handler that decoded a frame that is no valid command
\* answers with an Error frame that begins "Err unknown command", stays in
\* the reading state, and nothing is submitted or written to storage.
UnknownCommandReply ==
    [][\A c \in Conns :
        (received'[c] # received[c] /\ Unwrap(received'[c]).result.ok
            /\ NotACommand(Unwrap(received'[c]).result.value)) =>
                /\ conn_pc'[c] = "reading"
                /\ last_reply'[c].frame =
                        "-Err unknown command "
                            \o RespValue_fmt(Unwrap(received'[c]).result.value) \o "\r\n"
                /\ UNCHANGED <<sync_vars, raft_vars, oneshot, issued>>]_vars

\* C14 as stated: the command parsed from an array of bulk strings is the
\* one parsed from the same array with its verb upper-cased.
ParseIgnoresVerbCase ==
    (IsSome(codec_cmd) /\ IsCommandArray(Unwrap(codec_result).value)) =>
        Unwrap(codec_cmd) = Cmd_from(UpperVerb(Unwrap(codec_result).value))

\* C15 as stated: a handler that took a frame ends only on an IO error (Ok
\* on UnexpectedEof, the error otherwise); on IncompleteData,
\* UnrecognizedType, a ParseInt or a Utf8 error it writes an Error frame and
\* is reading again; in every other case it is reading or awaiting a write.
OnlyIoErrorsEndConnection ==
    [][\A c \in Conns :
        received'[c] # received[c] =>
            LET r == Unwrap(received'[c]).result
            IN  /\ conn_pc'[c] \in {"reading", "awaiting", "returned_ok", "returned_err"}
                /\ conn_pc'[c] = "returned_ok" <=> (~r.ok /\ r.err = IoError("UnexpectedEof"))
                /\ conn_pc'[c] = "returned_err" <=>
                        (~r.ok /\ r.err.error = "IoError" /\ r.err # IoError("UnexpectedEof"))
                /\ (~r.ok /\ r.err.error # "IoError") =>
                        /\ conn_pc'[c] = "reading"
                        /\ last_reply'[c].cmd = "ERROR"
                        /\ SubSeq(last_reply'[c].frame, 1, 5) = "-Err "]_vars

BulkHeader(len, body) == "$" \o ToString(len) \o "\r\n" \o body

\* C17 as stated: for a bulk string header of declared length len, decode
\* yields the null bulk string when len = -1, the len bytes after the header
\* when len >= 0 and CR LF follows them, and a decode error in every other
\* case; it never aborts and never yields bytes it was not sent.
BulkHeaderTotal ==
    \A len \in (0 - MaxDeclaredLen) .. MaxDeclaredLen, body \in BulkBodies :
        (codec_input = BulkHeader(len, body) /\ IsSome(codec_result)) =>
            LET r == Unwrap(codec_result)
            IN  /\ r.err # Panic
                /\ len = 0 - 1 => r = Ok(BulkString(None), body)
                /\ (len >= 0 /\ Len(body) >= len + 2 /\ SubSeq(body, len + 1, len + 2) = "\r\n") =>
                        r = Ok(BulkString(Some(SubSeq(body, 1, len))),
                               SubSeq(body, len + 3, Len(body)))
                /\ (len >= 0 /\ ~(Len(body) >= len + 2 /\ SubSeq(body, len + 1, len + 2) = "\r\n")) =>
                        (~r.ok /\ r.err.error \in {"IncompleteData", "IoError"})
                /\ len < 0 - 1 =>
                        (~r.ok /\ r.err.error \in
                            {"IncompleteData", "UnrecognizedType", "IoError", "ParseIntError",
                             "Utf8Error"})

\* The writes of connection c that have no reply yet.
Unanswered(c) == {i \in Written : issued[i].conn = c /\ reply_of[i] = << >>}

\* The handler of c is reading, or awaits the commit of its one unanswered
\* write, and every earlier write of c has its reply.
Sequential(c) ==
    /\ conn_pc[c] \in {"reading", "awaiting"}
    /\ Cardinality(Unanswered(c)) <= 1
    /\ conn_pc[c] = "reading" <=> Unanswered(c) = {}
    /\ conn_pc[c] = "awaiting" =>
            (IsSome(conn_req[c]) /\ Unanswered(c) = {Unwrap(conn_req[c]).id})
    /\ \A i, j \in Written :
            (i < j /\ issued[i].conn = c /\ issued[j].conn = c) => reply_of[i] # << >>

\* C18: after every step each handler is in one of the two states, has at
\* most one write awaiting its commit and has answered its writes in the
\* order it took them; and a step that takes a frame (a write, or a GET) is
\* taken by a handler in the reading state.
ResponsesInRequestOrder ==
    [][\A c \in Conns :
        /\ Sequential(c)'
        /\ (Len(issued') > Len(issued) /\ issued'[Len(issued')].conn = c) =>
                conn_pc[c] = "reading"
        /\ (last_reply'[c] # last_reply[c] /\ last_reply'[c].cmd = "GET") =>
                (conn_pc[c] = "reading" /\ Unanswered(c) = {})]_vars

\* C18 happens: A's first write was applied and answered +OK, and A awaits
\* the commit of its second one.
ResponsesInRequestOrder_Witness ==
    \E i, j \in Written :
        /\ i < j
        /\ issued[i].conn = "A"
        /\ issued[j].conn = "A"
        /\ reply_of[i] = <<"+OK\r\n">>
        /\ conn_pc["A"] = "awaiting"
        /\ Unwrap(conn_req["A"]).id = j

\* C19: on every node, the apply of a SET k v NX when k is present, or of a
\* SET k v XX when k is absent, leaves storage as it was and fails, and the
\* apply of any other SET maps k to v and succeeds, NX and XX being those of
\* the command the connection took; the write is answered $-1 when its apply
\* failed and +OK when it succeeded; and every committed payload
\* deserialises to the command it was made from.
ConditionalSet ==
    [][/\ \A n \in peers :
            Len(applied_log'[n]) > Len(applied_log[n]) =>
                LET i == applied_log'[n][Len(applied_log'[n])]
                    m == issued[i].message
                    present == IsSome(storage[n][m.key])
                    nx == IsSome(m.option) /\ Unwrap(m.option).nx
                    xx == IsSome(m.option) /\ Unwrap(m.option).xx
                IN  m.tag = "Put" =>
                        IF (nx /\ present) \/ (xx /\ ~present)
                        THEN /\ storage'[n] = storage[n]
                             /\ handle_result'[n][i] = "Err"
                        ELSE /\ storage'[n] = [storage[n] EXCEPT ![m.key] = Some(m.value)]
                             /\ handle_result'[n][i] = "Ok"
       /\ \A i \in Written :
            (reply_of'[i] # reply_of[i] /\ oneshot[i] \in {"Ok", "Err"}) =>
                reply_of'[i] =
                    <<IF handle_result[WriteNode(i)][i] = "Ok" THEN "+OK\r\n" ELSE "$-1\r\n">>
       /\ \A j \in 1 .. Len(raft_log') :
            Deserialize(raft_log'[j]) = issued'[Deserialize(raft_log'[j]).id].message]_vars

\* C19 happens: SET k 1 then SET k 2 NX were applied on both nodes, the NX
\* was answered $-1 and k still maps to 1 on both.
ConditionalSet_Witness ==
    \E i, j \in Written :
        /\ issued[i].message.option = None
        /\ issued[j].message.option = PutOptionSerde_nx
        /\ reply_of[i] = <<"+OK\r\n">>
        /\ reply_of[j] = <<"$-1\r\n">>
        /\ \A n \in peers : applied_log[n] = <<i, j>> /\ storage[n]["k"] = Some("1")

\* The writes taken by the connections of node n.
Local(n) == {i \in Written : WriteNode(i) = n}

\* The writes of node n that its submit task has not put in the RequestMap
\* yet: those in the SyncRequest channel and the one it holds before insert.
NotYetInserted(n) ==
    {get_request_id(sync_request_chan[n][j].message) : j \in 1 .. Len(sync_request_chan[n])}
    \cup (IF submit_pc[n] = "lock" THEN {get_request_id(Unwrap(submit_req[n]).message)} ELSE {})

\* The entries the apply task of node n has finished with: applied, and
\* looked up in the RequestMap.
AppliedAndLookedUp(n) ==
    Range(applied_log[n])
    \ (IF apply_pc[n] = "lock" THEN {get_request_id(Unwrap(apply_msg[n]).message)} ELSE {})

\* Node n's submit task has inserted every write its connections took, and
\* its apply task is between two entries.
Quiescent(n) == NotYetInserted(n) = {} /\ apply_pc[n] = "recv"

\* C20: on every node the RequestMap holds exactly the ids of the writes of
\* that node that the submit task has inserted and the apply task has not
\* finished with; so at a quiescent point it holds exactly the local writes
\* not yet applied on the node, N - M of them after N submissions and M
\* applies of them, none when all N were applied, whichever clients timed
\* out and whatever other nodes' entries were applied.
NoMapLeak ==
    \A n \in peers :
        /\ MapKeys(request_map[n]) = (Local(n) \ NotYetInserted(n)) \ AppliedAndLookedUp(n)
        /\ Cardinality(request_map[n]) = Cardinality(MapKeys(request_map[n]))
        /\ Quiescent(n) =>
            /\ MapKeys(request_map[n]) = Local(n) \ Range(applied_log[n])
            /\ Cardinality(request_map[n]) =
                    Cardinality(Local(n)) - Cardinality(Local(n) \cap Range(applied_log[n]))
            /\ Local(n) \subseteq Range(applied_log[n]) => request_map[n] = {}

\* C20 happens: node1 took two writes and applied the first; at a quiescent
\* point its RequestMap holds the second one alone, whose client timed out.
NoMapLeak_Witness ==
    \E i, j \in Written :
        /\ Local("node1") = {i, j}
        /\ i # j
        /\ Quiescent("node1")
        /\ i \in Range(applied_log["node1"])
        /\ MapKeys(request_map["node1"]) = {j}
        /\ oneshot[j] = "rx_dropped"

\* C21: when a write's client has timed out, the apply of its entry still
\* writes storage as the command requires, once; the later lookup removes
\* the RequestMap entry, finds the send failing, logs one warning, changes no
\* one-shot and no reply, and leaves the apply task ready for the next
\* payload; and no write ever has a second reply.
TimeoutRace ==
    [][/\ \A n \in peers :
            /\ (Len(applied_log'[n]) > Len(applied_log[n])
                    /\ oneshot[applied_log'[n][Len(applied_log'[n])]] = "rx_dropped") =>
                    LET i == applied_log'[n][Len(applied_log'[n])]
                    IN  /\ storage'[n] = handle(issued[i].message, storage[n]).store
                        /\ Count(applied_log'[n], i) = 1
            /\ (apply_pc[n] = "lock" /\ apply_pc'[n] # "lock"
                    /\ get_request_id(Unwrap(apply_msg[n]).message) \in MapKeys(request_map[n])
                    /\ oneshot[get_request_id(Unwrap(apply_msg[n]).message)] = "rx_dropped") =>
                    LET i == get_request_id(Unwrap(apply_msg[n]).message)
                    IN  /\ i \notin MapKeys(request_map'[n])
                        /\ warned'[i] = warned[i] + 1
                        /\ UNCHANGED <<oneshot, notified, storage, reply_of, last_reply, conn_pc>>
                        /\ apply_pc'[n] = "recv"
       /\ \A i \in Written : Len(reply_of'[i]) <= 1]_vars

\* C21 happens: A's first write timed out and was answered once, its entry
\* was applied afterwards and is in storage, its RequestMap entry is gone, a
\* warning was logged, and the apply task went on to apply the next entry.
TimeoutRace_Witness ==
    \E i, j \in Written :
        /\ i # j
        /\ oneshot[i] = "rx_dropped"
        /\ warned[i] = 1
        /\ notified[i] = 0
        /\ Len(reply_of[i]) = 1
        /\ applied_log["node1"] = <<i, j>>
        /\ handle_result["node1"][i] = "Ok"
        /\ i \notin MapKeys(request_map["node1"])

\* C22: on every node, the apply of an entry whose request id is not in the
\* node's RequestMap writes storage as the command requires, and both that
\* step and the lookup that follows leave the RequestMap, every one-shot,
\* the notification and warning counts and every connection as they were.
SilentApply ==
    [][\A n \in peers :
        /\ (Len(applied_log'[n]) > Len(applied_log[n])
                /\ applied_log'[n][Len(applied_log'[n])] \notin MapKeys(request_map[n])) =>
                LET i == applied_log'[n][Len(applied_log'[n])]
                IN  /\ storage'[n] = handle(issued[i].message, storage[n]).store
                    /\ UNCHANGED <<request_map, oneshot, notified, warned, conn_vars, reply_of>>
        /\ (apply_pc[n] = "lock" /\ apply_pc'[n] # "lock"
                /\ get_request_id(Unwrap(apply_msg[n]).message) \notin MapKeys(request_map[n])) =>
                /\ UNCHANGED <<request_map, oneshot, notified, warned, conn_vars, reply_of,
                               storage>>
                /\ apply_pc'[n] = "recv"]_vars

\* C22 happens: node2 applied the SET k 1 that node1 proposed and finished
\* its lookup, while its RequestMap still holds B's own write, which waits
\* unanswered.
SilentApply_Witness ==
    \E i, j \in Written :
        /\ WriteNode(i) = "node1"
        /\ WriteNode(j) = "node2"
        /\ applied_log["node2"] = <<i>>
        /\ apply_pc["node2"] = "recv"
        /\ storage["node2"]["k"] = Some("1")
        /\ MapKeys(request_map["node2"]) = {j}
        /\ oneshot[j] = "pending"

\* C23 as stated: no task holds the RequestMap lock while it is suspended;
\* in particular the submit task does not hold it while its send to
\* propose_in waits for room in the channel.
LockShortHeld ==
    \A n \in peers :
        map_lock[n] = "submit" =>
            ~(submit_pc[n] = "send" /\ Len(propose_in[n]) >= ProposeCap)

\* The submit task of n waits on Raft (it is in its send and propose_in is
\* full), Raft waits on the apply task (its send to committed_out finds the
\* channel full), and the apply task waits on the submit task (it needs the
\* RequestMap lock, which the submit task holds).
CircularWait(n) ==
    /\ submit_pc[n] = "send"
    /\ map_lock[n] = "submit"
    /\ Len(propose_in[n]) >= ProposeCap
    /\ delivered[n] < Len(raft_log)
    /\ Len(committed_out[n]) >= CommittedCap
    /\ apply_pc[n] = "lock"

\* C24 as stated: there is no reachable state in which the submit task, the
\* apply task and Raft of a node all wait on one another.
NoCircularWait == \A n \in peers : ~CircularWait(n)

\* The writes of node n whose payload was handed to propose_in: it is in the
\* channel or in the log.
Proposed(n) ==
    {i \in Local(n) :
        Serialize(issued[i].message) \in Range(propose_in[n]) \cup Range(raft_log)}

\* C25: after every step, the id of every write of a node whose payload was
\* handed to propose_in and whose apply on the node has not finished is in
\* the node's RequestMap; and the lookup that follows the first delivery of
\* an entry the node proposed finds its id there and removes it.
InsertBeforePropose ==
    [][\A n \in peers :
        /\ (Proposed(n) \ AppliedAndLookedUp(n))' \subseteq MapKeys(request_map'[n])
        /\ (apply_pc[n] = "lock" /\ apply_pc'[n] # "lock"
                /\ get_request_id(Unwrap(apply_msg[n]).message) \in Local(n)
                /\ Count(applied_log[n], get_request_id(Unwrap(apply_msg[n]).message)) = 1) =>
                LET i == get_request_id(Unwrap(apply_msg[n]).message)
                IN  /\ i \in MapKeys(request_map[n])
                    /\ i \notin MapKeys(request_map'[n])
                    /\ removed'[n][i] = 1]_vars

\* C25 happens: Raft committed and delivered node1's write at once, the
\* apply task of node1 applied it and is about to look it up, and its id is
\* in the RequestMap while its client still waits.
InsertBeforePropose_Witness ==
    \E i \in Written :
        /\ WriteNode(i) = "node1"
        /\ apply_pc["node1"] = "lock"
        /\ get_request_id(Unwrap(apply_msg["node1"]).message) = i
        /\ applied_log["node1"] = <<i>>
        /\ i \in MapKeys(request_map["node1"])
        /\ oneshot[i] = "pending"
        /\ submit_pc["node1"] = "recv"

\* C26 as stated: once the submit task or the apply task of a node has
\* panicked, the process is gone: no connection of the node takes a command,
\* is answered or changes state, and no entry is applied on the node.
InvariantViolationsFatal ==
    [][\A n \in peers :
        (submit_pc[n] = "dead" \/ apply_pc[n] = "dead") =>
            /\ \A c \in Conns :
                    ConnNode(c) = n =>
                        UNCHANGED <<conn_pc[c], conn_req[c], last_reply[c], received[c]>>
            /\ UNCHANGED <<storage[n], applied_log[n], apply_pc[n], request_map[n]>>]_vars

\* C27: no write is notified or answered more than once; the lookup after
\* the first delivery of an entry of the node finds and removes its
\* RequestMap entry, and sends the result when the client still waits; the
\* lookup after every later delivery of the entry finds no entry and leaves
\* the RequestMap, the one-shots, the counts and the connections as they
\* were.
ReplayNotifiesOnce ==
    [][/\ \A i \in Written : notified'[i] <= 1 /\ Len(reply_of'[i]) <= 1
       /\ \A n \in peers :
            (apply_pc[n] = "lock" /\ apply_pc'[n] # "lock") =>
                LET i == get_request_id(Unwrap(apply_msg[n]).message)
                IN  IF Count(applied_log[n], i) = 1
                    THEN /\ i \in MapKeys(request_map[n])
                         /\ i \notin MapKeys(request_map'[n])
                         /\ oneshot[i] = "pending" =>
                                (oneshot'[i] = Unwrap(apply_msg[n]).result /\ notified'[i] = 1)
                    ELSE /\ i \notin MapKeys(request_map[n])
                         /\ UNCHANGED <<request_map, oneshot, notified, warned, removed,
                                        conn_vars, reply_of>>
                         /\ apply_pc'[n] = "recv"]_vars

\* C27 happens: A's SET k 1 NX was delivered twice; the first apply
\* succeeded and A was answered +OK, the second one failed, and A's write
\* was notified once and has one reply.
ReplayNotifiesOnce_Witness ==
    \E i \in Written :
        /\ Count(applied_log["node1"], i) = 2
        /\ apply_pc["node1"] = "recv"
        /\ issued[i].message.option = PutOptionSerde_nx
        /\ handle_result["node1"][i] = "Err"
        /\ notified[i] = 1
        /\ removed["node1"][i] = 1
        /\ reply_of[i] = <<"+OK\r\n">>

\* C28: an entry that is in the RequestMap of a node before a step and not
\* after it was taken out by the apply task of the node, finishing the
\* lookup of a payload that carries the entry's id, and no entry of that id
\* is in the map afterwards; every other step leaves every entry in place.
EntryLeavesOnlyOnApply ==
    [][\A n \in peers :
        \A e \in request_map[n] :
            e \notin request_map'[n] =>
                /\ apply_pc[n] = "lock"
                /\ apply_pc'[n] # "lock"
                /\ get_request_id(Unwrap(apply_msg[n]).message) = e.id
                /\ e.id \in Range(applied_log[n])
                /\ e.id \notin MapKeys(request_map'[n])]_vars

\* C28 happens: Raft stopped taking proposals before it committed a write;
\* the client's wait elapsed, it was answered and its connection reads
\* again, and the entry of the write is still in the RequestMap.
EntryLeavesOnlyOnApply_Witness ==
    \E i \in Written :
        /\ raft_in_closed["node1"]
        /\ raft_log = << >>
        /\ oneshot[i] = "rx_dropped"
        /\ Len(reply_of[i]) = 1
        /\ conn_pc[issued[i].conn] = "reading"
        /\ i \in MapKeys(request_map["node1"])
        /\ i \notin Range(applied_log["node1"])

====
